---- MODULE Spec2Model ----
(***************************************************************************)
(* Chunked batch execution engine of clean_dynamodb_store:                 *)
(*   chunking.rs     chunk_items / chunk_for_write / chunk_for_get         *)
(*   retry.rs        RetryConfig, delay_for_attempt, retry_with_backoff    *)
(*   store/mod.rs    validate_table_name, BatchWriteResult, BatchGetResult *)
(*   store/batch.rs  batch_put_items, execute_batch_write,                 *)
(*                   batch_get_items, execute_batch_get                    *)
(*   store.rs        the older batch_put_items (chunk_items with None)     *)
(*                                                                         *)
(* A record (or key) of the caller is identified by its position in the    *)
(* input vector.  A table name is a sequence of characters.  One call is   *)
(* followed from its entry to its return; the remote store answers every   *)
(* request with an error or with any response its API contract admits.     *)
(* Input lengths are taken around zero and around the batch limits.        *)
(***************************************************************************)
EXTENDS Integers, Sequences, FiniteSets, TLC

\* ---------------------------------------------------------------- bounds
MaxPutItems == 26
MaxGetKeys == 101
MaxNameLen == 1
MaxRetriesBound == 4
UnprocessedSpan == 1
MaxChunkSize == 4

\* ------------------------------------------------------- program constants
DYNAMODB_BATCH_LIMIT == 25
DYNAMODB_BATCH_GET_LIMIT == 100

\* variant: one retry more than the documented three
DefaultRetryConfig_FourRetries ==
    [max_retries |-> 4, initial_delay_ms |-> 100, backoff_multiplier |-> 2]

\* RetryConfig::default()
DefaultRetryConfig ==
    [max_retries |-> 3, initial_delay_ms |-> 100, backoff_multiplier |-> 2]

\* ----------------------------------------------------------------- helpers
Min(a, b) == IF a < b THEN a ELSE b

Range(s) == {s[i] : i \in 1..Len(s)}

RECURSIVE Pow(_, _)
\* u64::pow
Pow(b, e) == IF e = 0 THEN 1 ELSE b * Pow(b, e - 1)

RECURSIVE Concat(_)
Concat(ss) == IF ss = <<>> THEN <<>> ELSE Head(ss) \o Concat(Tail(ss))

\* ---------------------------------------------------------------- chunking
RECURSIVE SliceChunks_ChunksExact(_, _)
\* variant: chunks_exact(size), which leaves a shorter remainder out
SliceChunks_ChunksExact(s, size) ==
    IF Len(s) < size THEN <<>>
    ELSE <<SubSeq(s, 1, size)>>
             \o SliceChunks_ChunksExact(SubSeq(s, size + 1, Len(s)), size)

RECURSIVE SliceChunks(_, _)
\* <[T]>::chunks(size).collect()
SliceChunks(s, size) ==
    IF Len(s) = 0 THEN <<>>
    ELSE <<SubSeq(s, 1, Min(size, Len(s)))>>
             \o SliceChunks(SubSeq(s, size + 1, Len(s)), size)

\* Option<usize>
NoneSize == [some |-> FALSE, size |-> 0]

SomeSize(k) == [some |-> TRUE, size |-> k]

\* variant: an empty input yields one empty chunk
chunking_chunk_items_EmptyChunk(s, chunk_size) ==
    IF s = <<>> THEN <<(<<>>)>>
    ELSE SliceChunks(s, IF chunk_size.some THEN chunk_size.size
                        ELSE DYNAMODB_BATCH_LIMIT)

\* variant: a missing chunk size defaults to the read limit
chunking_chunk_items_DefaultIsReadLimit(s, chunk_size) ==
    SliceChunks(s, IF chunk_size.some THEN chunk_size.size
                   ELSE DYNAMODB_BATCH_GET_LIMIT)

\* chunking::chunk_items: chunk_size.unwrap_or(DYNAMODB_BATCH_LIMIT), then
\* items.chunks(size)
chunking_chunk_items(s, chunk_size) ==
    SliceChunks(s, IF chunk_size.some THEN chunk_size.size
                   ELSE DYNAMODB_BATCH_LIMIT)

\* variant: the write limit exceeded by one
chunk_for_write_OffByOne(s) == SliceChunks(s, DYNAMODB_BATCH_LIMIT + 1)

chunk_for_write(s) == SliceChunks(s, DYNAMODB_BATCH_LIMIT)

chunk_for_get(s) == SliceChunks(s, DYNAMODB_BATCH_GET_LIMIT)

\* ------------------------------------------------------------------- retry
\* variant: the delay is capped at 400 ms
delay_for_attempt_Capped(cfg, n) ==
    Min(400, cfg.initial_delay_ms * Pow(cfg.backoff_multiplier, n))

\* variant: the exponent is the attempt number plus one
delay_for_attempt_NextPower(cfg, n) ==
    cfg.initial_delay_ms * Pow(cfg.backoff_multiplier, n + 1)

delay_for_attempt(cfg, n) ==
    cfg.initial_delay_ms * Pow(cfg.backoff_multiplier, n)

\* -------------------------------------------------------------- table names
Chars == {" ", "t"}

Whitespace == {" "}

TableNames == UNION {[1..k -> Chars] : k \in 0..MaxNameLen}

\* a table the call is not about, as a key of a response map
OtherTable == <<"o">>

RECURSIVE TrimStart(_)
TrimStart(s) ==
    IF s # <<>> /\ Head(s) \in Whitespace THEN TrimStart(Tail(s)) ELSE s

RECURSIVE TrimEnd(_)
TrimEnd(s) ==
    IF s # <<>> /\ s[Len(s)] \in Whitespace
    THEN TrimEnd(SubSeq(s, 1, Len(s) - 1)) ELSE s

\* str::trim
Trim(s) == TrimEnd(TrimStart(s))

\* variant: is_empty() without trim()
validate_table_name_NoTrim(t) == ~(t = <<>>)

\* Ok(()) is TRUE, Err(Validation) is FALSE
validate_table_name(t) == ~(Trim(t) = <<>>)

ValidationError(msg) == [variant |-> "Validation", detail |-> msg]

AwsSdkError(cause) == [variant |-> "AwsSdk", detail |-> cause]

\* impl Display for Error (thiserror attributes)
ErrorDisplay(e) ==
    IF e.variant = "AwsSdk" THEN <<"AWS SDK error: ", e.detail>>
    ELSE <<"Validation error: ", e.detail>>

\* ------------------------------------------------------------- remote store
\* causes of a failed send(): missing table, credentials, connectivity
StoreErrors == {"ResourceNotFoundException", "CredentialsNotLoaded", "DispatchFailure"}

\* sets of entries the store may list as unprocessed for one chunk; a table
\* is a key of the unprocessed map only with at least one entry (when nothing
\* is left the store sends an empty map)
UnprocessedChoices(chunk) ==
    (SUBSET {chunk[i] : i \in 1..Min(UnprocessedSpan, Len(chunk))}
        \cup {Range(chunk)}) \ {{}}

\* BatchWriteItemOutput, or the error of send().  unprocessed_items is
\* None (some = FALSE) or Some(map); tables is the key set of the map and
\* requests the entry under the table of the call.
WriteResponses(table, chunk) ==
    {[ok |-> FALSE, error |-> c, some |-> FALSE, tables |-> {}, requests |-> {}]
        : c \in StoreErrors}
    \cup {[ok |-> TRUE, error |-> "", some |-> FALSE, tables |-> {}, requests |-> {}],
          [ok |-> TRUE, error |-> "", some |-> TRUE, tables |-> {}, requests |-> {}],
          [ok |-> TRUE, error |-> "", some |-> TRUE, tables |-> {OtherTable},
           requests |-> {}]}
    \cup {[ok |-> TRUE, error |-> "", some |-> TRUE, tables |-> {table}, requests |-> u]
        : u \in UnprocessedChoices(chunk)}

\* record lists the store may return for the keys it processed
RetrievedChoices(found) ==
    {found} \cup (IF found = <<>> THEN {} ELSE {Tail(found)})

\* BatchGetItemOutput, or the error of send().  responses is None or a map
\* (resp_tables its key set, retrieved the entry under the table of the
\* call); unprocessed_keys likewise (tables, keys).
GetResponses(table, chunk) ==
    {[ok |-> FALSE, error |-> c, resp_some |-> FALSE, resp_tables |-> {},
      retrieved |-> <<>>, some |-> FALSE, tables |-> {}, keys |-> {}]
        : c \in StoreErrors}
    \cup {[ok |-> TRUE, error |-> "", resp_some |-> FALSE, resp_tables |-> {},
           retrieved |-> <<>>, some |-> FALSE, tables |-> {}, keys |-> {}]}
    \cup {[ok |-> TRUE, error |-> "", resp_some |-> TRUE, resp_tables |-> {table},
           retrieved |-> r, some |-> sm, tables |-> {}, keys |-> {}]
        : r \in RetrievedChoices(chunk), sm \in BOOLEAN}
    \cup {[ok |-> TRUE, error |-> "", resp_some |-> TRUE, resp_tables |-> {table},
           retrieved |-> chunk, some |-> TRUE, tables |-> {OtherTable}, keys |-> {}]}
    \cup UNION {
          {[ok |-> TRUE, error |-> "", resp_some |-> TRUE, resp_tables |-> {table},
            retrieved |-> r, some |-> TRUE, tables |-> {table}, keys |-> u]
              : r \in RetrievedChoices(SelectSeq(chunk, LAMBDA k : k \notin u))}
          : u \in UnprocessedChoices(chunk)}

\* lengths of the input of a batch call: around zero and around the limit
PutItemCounts == (0..2) \cup ((DYNAMODB_BATCH_LIMIT - 1)..MaxPutItems)

GetKeyCounts == (0..2) \cup ((DYNAMODB_BATCH_GET_LIMIT - 1)..MaxGetKeys)

\* results of the operation handed to a direct call of retry_with_backoff
OpErrors == {"boom"}

OpOutcomes ==
    {[ok |-> FALSE, value |-> "none", error |-> e] : e \in OpErrors}
    \cup {[ok |-> TRUE, value |-> <<v, b>>, error |-> "none"]
        : v \in {41, 42}, b \in BOOLEAN}

RetryConfigs ==
    [max_retries : 0..MaxRetriesBound, initial_delay_ms : {50, 100},
     backoff_multiplier : {2, 3}]

\* ------------------------------------------------------------------- state
VARIABLES
    pc,             \* position of the call
    kind,           \* "put" | "get" | "retry" | "none"
    table_name,     \* argument of the batch call
    items,          \* argument of the batch call (records or keys)
    chunks,         \* chunk_for_write(&items) / chunk_for_get(&keys)
    ci,             \* index of the chunk the for loop is at
    chunk_items,    \* chunk.to_vec()
    config,         \* RetryConfig of the running retry_with_backoff
    attempt,        \* loop variable of retry_with_backoff
    retry_result,   \* value retry_with_backoff returned
    successful,     \* accumulator of batch_put_items
    failed_items,   \* accumulator of batch_put_items
    all_items,      \* accumulator of batch_get_items
    failed_keys,    \* accumulator of batch_get_items
    result,         \* value the call returned
    in_flight,      \* requests sent and not yet answered
    requests,       \* every request sent, in order
    last_response,  \* per chunk, the latest answer of the store
    accepted,       \* records the store accepted in some attempt
    first_answer,   \* per chunk, what the answer to its first attempt reported
    signals,        \* per call of operation() in the running retry loop: what it signalled
    sleeps,         \* every tokio::time::sleep, in order
    unencodable,    \* input positions of a typed call that serde_dynamo::to_item rejects
    args            \* arguments of a direct call of chunk_items / delay_for_attempt

vars == <<pc, kind, table_name, items, chunks, ci, chunk_items, config, attempt,
          retry_result, successful, failed_items, all_items, failed_keys, result, in_flight, requests,
          last_response, first_answer, accepted, signals, sleeps, unencodable, args>>

NoResult == [ok |-> FALSE, value |-> "none", error |-> "none"]

Ok(v) == [ok |-> TRUE, value |-> v, error |-> "none"]

Err(e) == [ok |-> FALSE, value |-> "none", error |-> e]

Init ==
    /\ pc = "idle"
    /\ kind = "none"
    /\ table_name = <<>>
    /\ items = <<>>
    /\ chunks = <<>>
    /\ ci = 0
    /\ chunk_items = <<>>
    /\ config = DefaultRetryConfig
    /\ attempt = 0
    /\ retry_result = NoResult
    /\ successful = 0
    /\ failed_items = <<>>
    /\ all_items = <<>>
    /\ failed_keys = <<>>
    /\ result = NoResult
    /\ in_flight = 0
    /\ requests = <<>>
    /\ last_response = <<>>
    /\ first_answer = <<>>
    /\ accepted = {}
    /\ signals = <<>>
    /\ sleeps = <<>>
    /\ unencodable = {}
    /\ args = <<>>

\* ------------------------------------------------------ batch_put_items
BatchWriteResult(s, f) ==
    [successful |-> s, failed |-> Len(f), failed_items |-> f]

\* variant: the description does not carry the error
FailedItem_NoCause(item, e) ==
    [item |-> item, error |-> <<"Batch write error: ">>]

FailedItem(item, e) ==
    [item |-> item, error |-> <<"Batch write error: ">> \o ErrorDisplay(e)]

\* variant: an empty input is rejected instead of answered with zeros
batch_put_items_EmptyIsError(t, n) ==
    /\ pc = "idle"
    /\ kind' = "put"
    /\ table_name' = t
    /\ items' = [i \in 1..n |-> i]
    /\ IF ~validate_table_name(t)
       THEN /\ result' = Err(ValidationError("Table name cannot be empty"))
            /\ pc' = "done"
            /\ chunks' = chunks
       ELSE IF n = 0
       THEN /\ result' = Err(ValidationError("items cannot be empty"))
            /\ pc' = "done"
            /\ chunks' = chunks
       ELSE /\ result' = result
            /\ pc' = "for_chunk"
            /\ chunks' = chunk_for_write(items')
    /\ successful' = 0
    /\ failed_items' = <<>>
    /\ UNCHANGED <<unencodable, args, ci, chunk_items, config, attempt, retry_result, all_items,
                   failed_keys, in_flight, requests, last_response,
                   first_answer, accepted, signals, sleeps>>

\* variant: the empty-input short-circuit precedes the table-name check
batch_put_items_EmptyFirst(t, n) ==
    /\ pc = "idle"
    /\ kind' = "put"
    /\ table_name' = t
    /\ items' = [i \in 1..n |-> i]
    /\ IF n = 0
       THEN /\ result' = Ok(BatchWriteResult(0, <<>>))
            /\ pc' = "done"
            /\ chunks' = chunks
       ELSE IF ~validate_table_name(t)
       THEN /\ result' = Err(ValidationError("Table name cannot be empty"))
            /\ pc' = "done"
            /\ chunks' = chunks
       ELSE /\ result' = result
            /\ pc' = "for_chunk"
            /\ chunks' = chunk_for_write(items')
    /\ successful' = 0
    /\ failed_items' = <<>>
    /\ UNCHANGED <<unencodable, args, ci, chunk_items, config, attempt, retry_result, all_items,
                   failed_keys, in_flight, requests, last_response, first_answer, accepted,
                   signals, sleeps>>

\* entry of batch_put_items up to the for loop
batch_put_items(t, n) ==
    /\ pc = "idle"
    /\ kind' = "put"
    /\ table_name' = t
    /\ items' = [i \in 1..n |-> i]
    /\ IF ~validate_table_name(t)
       THEN /\ result' = Err(ValidationError("Table name cannot be empty"))
            /\ pc' = "done"
            /\ chunks' = chunks
       ELSE IF n = 0
       THEN /\ result' = Ok(BatchWriteResult(0, <<>>))
            /\ pc' = "done"
            /\ chunks' = chunks
       ELSE /\ result' = result
            /\ pc' = "for_chunk"
            /\ chunks' = chunk_for_write(items')
    /\ successful' = 0
    /\ failed_items' = <<>>
    /\ UNCHANGED <<unencodable, args, ci, chunk_items, config, attempt, retry_result, all_items,
                   failed_keys, in_flight, requests, last_response, first_answer, accepted,
                   signals, sleeps>>

\* entry of the older batch_put_items of store.rs, which chunks its input
\* with chunk_items(&items, None) and is otherwise the same
store_batch_put_items(t, n) ==
    /\ pc = "idle"
    /\ kind' = "put"
    /\ table_name' = t
    /\ items' = [i \in 1..n |-> i]
    /\ IF ~validate_table_name(t)
       THEN /\ result' = Err(ValidationError("Table name cannot be empty"))
            /\ pc' = "done"
            /\ chunks' = chunks
       ELSE IF n = 0
       THEN /\ result' = Ok(BatchWriteResult(0, <<>>))
            /\ pc' = "done"
            /\ chunks' = chunks
       ELSE /\ result' = result
            /\ pc' = "for_chunk"
            /\ chunks' = chunking_chunk_items(items', NoneSize)
    /\ successful' = 0
    /\ failed_items' = <<>>
    /\ UNCHANGED <<unencodable, args, ci, chunk_items, config, attempt, retry_result, all_items,
                   failed_keys, in_flight, requests, last_response, first_answer, accepted,
                   signals, sleeps>>

\* variant: the attempt counter is shared by the chunks of a call
PutForChunk_KeepsAttempt ==
    /\ pc = "for_chunk"
    /\ kind = "put"
    /\ IF ci < Len(chunks)
       THEN /\ ci' = ci + 1
            /\ chunk_items' = chunks[ci + 1]
            /\ config' = DefaultRetryConfig
            /\ attempt' = attempt
            /\ signals' = <<>>
            /\ pc' = "invoke"
            /\ result' = result
       ELSE /\ result' = Ok(BatchWriteResult(successful, failed_items))
            /\ pc' = "done"
            /\ UNCHANGED <<ci, chunk_items, config, attempt, signals>>
    /\ UNCHANGED <<unencodable, args, kind, table_name, items, chunks, retry_result, successful,
                   failed_items, all_items, failed_keys, in_flight, requests,
                   last_response, first_answer, accepted, sleeps>>

\* head of `for chunk in chunks`: the next chunk enters retry_with_backoff
\* with RetryConfig::default(), or the loop ends and the call returns
PutForChunk ==
    /\ pc = "for_chunk"
    /\ kind = "put"
    /\ IF ci < Len(chunks)
       THEN /\ ci' = ci + 1
            /\ chunk_items' = chunks[ci + 1]
            /\ config' = DefaultRetryConfig
            /\ attempt' = 0
            /\ signals' = <<>>
            /\ pc' = "invoke"
            /\ result' = result
       ELSE /\ result' = Ok(BatchWriteResult(successful, failed_items))
            /\ pc' = "done"
            /\ UNCHANGED <<ci, chunk_items, config, attempt, signals>>
    /\ UNCHANGED <<unencodable, args, kind, table_name, items, chunks, retry_result, successful,
                   failed_items, all_items, failed_keys, in_flight, requests,
                   last_response, first_answer, accepted, sleeps>>

\* variant: unprocessed records are listed as failures of the attempt
execute_batch_write_ListsResidue(table, its, resp) ==
    IF ~resp.ok THEN Err(AwsSdkError(resp.error))
    ELSE IF resp.some /\ resp.tables # {}
    THEN IF table \in resp.tables
         THEN LET residue == SelectSeq(its, LAMBDA x : x \in resp.requests)
              IN  Ok(<<<<Len(its) - Cardinality(resp.requests),
                         [i \in 1..Len(residue) |->
                             [item |-> residue[i], error |-> <<"Unprocessed">>]]>>,
                       TRUE>>)
         ELSE Ok(<<<<Len(its), <<>>>>, FALSE>>)
    ELSE Ok(<<<<Len(its), <<>>>>, FALSE>>)

\* variant: a retry is signalled although nothing is unprocessed
execute_batch_write_AlwaysRetry(table, its, resp) ==
    IF ~resp.ok THEN Err(AwsSdkError(resp.error))
    ELSE Ok(<<<<Len(its) - Cardinality(resp.requests), <<>>>>, TRUE>>)

\* variant: any Some(map) signals a retry, without is_empty() and get()
execute_batch_write_AnyMap(table, its, resp) ==
    IF ~resp.ok THEN Err(AwsSdkError(resp.error))
    ELSE IF resp.some
    THEN Ok(<<<<Len(its) - Cardinality(resp.requests), <<>>>>, TRUE>>)
    ELSE Ok(<<<<Len(its), <<>>>>, FALSE>>)

\* variant: the whole chunk is counted although records are unprocessed
execute_batch_write_CountsAll(table, its, resp) ==
    IF ~resp.ok THEN Err(AwsSdkError(resp.error))
    ELSE IF resp.some /\ resp.tables # {}
    THEN IF table \in resp.tables
         THEN Ok(<<<<Len(its), <<>>>>, TRUE>>)
         ELSE Ok(<<<<Len(its), <<>>>>, FALSE>>)
    ELSE Ok(<<<<Len(its), <<>>>>, FALSE>>)

\* execute_batch_write after send(): the Result<((usize, Vec), bool)>
execute_batch_write(table, its, resp) ==
    IF ~resp.ok THEN Err(AwsSdkError(resp.error))
    ELSE IF resp.some /\ resp.tables # {}
    THEN IF table \in resp.tables
         THEN Ok(<<<<Len(its) - Cardinality(resp.requests), <<>>>>, TRUE>>)
         ELSE Ok(<<<<Len(its), <<>>>>, FALSE>>)
    ELSE Ok(<<<<Len(its), <<>>>>, FALSE>>)

\* variant: an error of a chunk ends the whole call with that error
PutMatchResult_Abort ==
    /\ pc = "match"
    /\ kind = "put"
    /\ IF retry_result.ok
       THEN /\ successful' = successful + retry_result.value[1]
            /\ failed_items' = failed_items \o retry_result.value[2]
            /\ pc' = "for_chunk"
            /\ result' = result
       ELSE /\ successful' = successful
            /\ failed_items' = failed_items
            /\ pc' = "done"
            /\ result' = Err(retry_result.error)
    /\ UNCHANGED <<unencodable, args, kind, table_name, items, chunks, ci, chunk_items, config,
                   attempt, retry_result, all_items, failed_keys, in_flight,
                   requests, last_response, first_answer, accepted, signals, sleeps>>

\* variant: the count of a chunk replaces the running total
PutMatchResult_Overwrite ==
    /\ pc = "match"
    /\ kind = "put"
    /\ IF retry_result.ok
       THEN /\ successful' = retry_result.value[1]
            /\ failed_items' = failed_items \o retry_result.value[2]
       ELSE /\ successful' = successful
            /\ failed_items' = failed_items \o
                   [i \in 1..Len(chunk_items) |->
                       FailedItem(chunk_items[i], retry_result.error)]
    /\ pc' = "for_chunk"
    /\ UNCHANGED <<unencodable, args, kind, table_name, items, chunks, ci, chunk_items, config,
                   attempt, retry_result, all_items, failed_keys, result,
                   in_flight, requests, last_response, first_answer, accepted, signals,
                   sleeps>>

\* variant: a chunk that ended in an error is counted as written as well
PutMatchResult_CountsFailed ==
    /\ pc = "match"
    /\ kind = "put"
    /\ IF retry_result.ok
       THEN /\ successful' = successful + retry_result.value[1]
            /\ failed_items' = failed_items \o retry_result.value[2]
       ELSE /\ successful' = successful + Len(chunk_items)
            /\ failed_items' = failed_items \o
                   [i \in 1..Len(chunk_items) |->
                       FailedItem(chunk_items[i], retry_result.error)]
    /\ pc' = "for_chunk"
    /\ UNCHANGED <<unencodable, args, kind, table_name, items, chunks, ci, chunk_items, config,
                   attempt, retry_result, all_items, failed_keys, result,
                   in_flight, requests, last_response, first_answer, accepted,
                   signals, sleeps>>

\* match retry_result in batch_put_items
PutMatchResult ==
    /\ pc = "match"
    /\ kind = "put"
    /\ IF retry_result.ok
       THEN /\ successful' = successful + retry_result.value[1]
            /\ failed_items' = failed_items \o retry_result.value[2]
       ELSE /\ successful' = successful
            /\ failed_items' = failed_items \o
                   [i \in 1..Len(chunk_items) |->
                       FailedItem(chunk_items[i], retry_result.error)]
    /\ pc' = "for_chunk"
    /\ UNCHANGED <<unencodable, args, kind, table_name, items, chunks, ci, chunk_items, config,
                   attempt, retry_result, all_items, failed_keys, result,
                   in_flight, requests, last_response, first_answer, accepted, signals,
                   sleeps>>

\* ---------------------------------------------------- retry_with_backoff
\* variant: a retry sends only the records not yet accepted
Invoke_OnlyUnaccepted ==
    /\ pc = "invoke"
    /\ requests' = Append(requests,
           [chunk |-> ci, attempt |-> attempt, table |-> table_name,
            items |-> SelectSeq(chunk_items, LAMBDA x : x \notin accepted)])
    /\ in_flight' = in_flight + 1
    /\ pc' = "await"
    /\ UNCHANGED <<unencodable, args, kind, table_name, items, chunks, ci, chunk_items, config,
                   attempt, retry_result, successful, failed_items, all_items,
                   failed_keys, result, last_response, first_answer, accepted,
                   signals, sleeps>>

\* variant: the request is built from the chunk in reverse order
Invoke_Reversed ==
    /\ pc = "invoke"
    /\ requests' = Append(requests,
           [chunk |-> ci, attempt |-> attempt, table |-> table_name,
            items |-> [k \in 1..Len(chunk_items) |->
                         chunk_items[Len(chunk_items) + 1 - k]]])
    /\ in_flight' = in_flight + 1
    /\ pc' = "await"
    /\ UNCHANGED <<unencodable, args, kind, table_name, items, chunks, ci,
                   chunk_items, config, attempt, retry_result, successful,
                   failed_items, all_items, failed_keys, result, last_response,
                   first_answer, accepted, signals, sleeps>>

\* operation(): the request of the attempt is built and sent
Invoke ==
    /\ pc = "invoke"
    /\ requests' = Append(requests,
           [chunk |-> ci, attempt |-> attempt, table |-> table_name,
            items |-> chunk_items])
    /\ in_flight' = in_flight + 1
    /\ pc' = "await"
    /\ UNCHANGED <<unencodable, args, kind, table_name, items, chunks, ci, chunk_items, config,
                   attempt, retry_result, successful, failed_items, all_items,
                   failed_keys, result, last_response, first_answer, accepted, signals, sleeps>>

\* variant: an Ok attempt always ends the loop
RetryStep_NoRetry(out) ==
    IF ~out.ok
    THEN /\ retry_result' = Err(out.error)
         /\ pc' = "match"
         /\ sleeps' = sleeps
         /\ signals' = Append(signals, "error")
    ELSE /\ retry_result' = Ok(out.value[1])
         /\ pc' = "match"
         /\ sleeps' = sleeps
         /\ signals' = Append(signals, IF out.value[2] THEN "retry" ELSE "stop")

\* variant: the budget ends one attempt early
RetryStep_OffByOne(out) ==
    IF ~out.ok
    THEN /\ retry_result' = Err(out.error)
         /\ pc' = "match"
         /\ sleeps' = sleeps
         /\ signals' = Append(signals, "error")
    ELSE IF ~out.value[2] \/ attempt + 1 = config.max_retries
    THEN /\ retry_result' = Ok(out.value[1])
         /\ pc' = "match"
         /\ sleeps' = sleeps
         /\ signals' = Append(signals, IF out.value[2] THEN "retry" ELSE "stop")
    ELSE /\ retry_result' = retry_result
         /\ pc' = "sleep"
         /\ sleeps' = Append(sleeps, delay_for_attempt(config, attempt))
         /\ signals' = Append(signals, "retry")

\* variant: the should_retry flag is not looked at
RetryStep_IgnoresFlag(out) ==
    IF ~out.ok
    THEN /\ retry_result' = Err(out.error)
         /\ pc' = "match"
         /\ sleeps' = sleeps
         /\ signals' = Append(signals, "error")
    ELSE IF attempt = config.max_retries
    THEN /\ retry_result' = Ok(out.value[1])
         /\ pc' = "match"
         /\ sleeps' = sleeps
         /\ signals' = Append(signals, IF out.value[2] THEN "retry" ELSE "stop")
    ELSE /\ retry_result' = retry_result
         /\ pc' = "sleep"
         /\ sleeps' = Append(sleeps, delay_for_attempt(config, attempt))
         /\ signals' = Append(signals, IF out.value[2] THEN "retry" ELSE "stop")

\* variant: an error is retried like a partial result while budget is left
RetryStep_RetriesOnError(out) ==
    IF ~out.ok /\ attempt = config.max_retries
    THEN /\ retry_result' = Err(out.error)
         /\ pc' = "match"
         /\ sleeps' = sleeps
         /\ signals' = Append(signals, "error")
    ELSE IF ~out.ok
    THEN /\ retry_result' = retry_result
         /\ pc' = "sleep"
         /\ sleeps' = Append(sleeps, delay_for_attempt(config, attempt))
         /\ signals' = Append(signals, "error")
    ELSE IF ~out.value[2] \/ attempt = config.max_retries
    THEN /\ retry_result' = Ok(out.value[1])
         /\ pc' = "match"
         /\ sleeps' = sleeps
         /\ signals' = Append(signals, IF out.value[2] THEN "retry" ELSE "stop")
    ELSE /\ retry_result' = retry_result
         /\ pc' = "sleep"
         /\ sleeps' = Append(sleeps, delay_for_attempt(config, attempt))
         /\ signals' = Append(signals, "retry")

\* the match of retry_with_backoff on one Result<(T, bool), E>
RetryStep(out) ==
    IF ~out.ok
    THEN /\ retry_result' = Err(out.error)
         /\ pc' = "match"
         /\ sleeps' = sleeps
         /\ signals' = Append(signals, "error")
    ELSE IF ~out.value[2] \/ attempt = config.max_retries
    THEN /\ retry_result' = Ok(out.value[1])
         /\ pc' = "match"
         /\ sleeps' = sleeps
         /\ signals' = Append(signals, IF out.value[2] THEN "retry" ELSE "stop")
    ELSE /\ retry_result' = retry_result
         /\ pc' = "sleep"
         /\ sleeps' = Append(sleeps, delay_for_attempt(config, attempt))
         /\ signals' = Append(signals, "retry")

\* the store answers the bulk write in flight
PutRespond(resp) ==
    /\ pc = "await"
    /\ kind = "put"
    /\ in_flight' = in_flight - 1
    /\ last_response' = [i \in 1..ci |->
           IF i = ci THEN resp ELSE last_response[i]]
    /\ first_answer' = IF attempt = 0
                       THEN Append(first_answer,
                                IF ~resp.ok THEN "error"
                                ELSE IF resp.requests = {} THEN "accepted"
                                ELSE "partial")
                       ELSE first_answer
    /\ accepted' = IF resp.ok
                   THEN accepted \cup (Range(chunk_items) \ resp.requests)
                   ELSE accepted
    /\ RetryStep(execute_batch_write(table_name, chunk_items, resp))
    /\ UNCHANGED <<unencodable, args, kind, table_name, items, chunks, ci, chunk_items, config,
                   attempt, successful, failed_items, all_items, failed_keys,
                   result, requests>>

\* variant: a timer abandons a request that is still outstanding and the loop
\* goes on with the next attempt
Wake_TimesOut ==
    /\ pc \in {"sleep", "await"}
    /\ attempt' = attempt + 1
    /\ pc' = IF attempt + 1 <= config.max_retries THEN "invoke" ELSE "unreachable"
    /\ UNCHANGED <<unencodable, args, kind, table_name, items, chunks, ci, chunk_items, config,
                   retry_result, successful, failed_items, all_items,
                   failed_keys, result, in_flight, requests, last_response, first_answer,
                   accepted, signals, sleeps>>

\* variant: the loop ranges over 0..max_retries, without the upper end
Wake_ExclusiveRange ==
    /\ pc = "sleep"
    /\ attempt' = attempt + 1
    /\ pc' = IF attempt + 1 < config.max_retries THEN "invoke" ELSE "unreachable"
    /\ UNCHANGED <<unencodable, args, kind, table_name, items, chunks, ci, chunk_items, config,
                   retry_result, successful, failed_items, all_items,
                   failed_keys, result, in_flight, requests, last_response, first_answer,
                   accepted, signals, sleeps>>

\* the sleep ends: the for loop of retry_with_backoff takes the next attempt
Wake ==
    /\ pc = "sleep"
    /\ attempt' = attempt + 1
    /\ pc' = IF attempt + 1 <= config.max_retries THEN "invoke" ELSE "unreachable"
    /\ UNCHANGED <<unencodable, args, kind, table_name, items, chunks, ci, chunk_items, config,
                   retry_result, successful, failed_items, all_items,
                   failed_keys, result, in_flight, requests, last_response, first_answer,
                   accepted, signals, sleeps>>

\* ------------------------------------------------------ batch_get_items
\* variant: successful is the number of keys not recorded as failed
BatchGetResult_CountsRequested(its, f) ==
    [successful |-> Len(items) - Len(f), failed |-> Len(f), items |-> its,
     failed_keys |-> f]

BatchGetResult(its, f) ==
    [successful |-> Len(its), failed |-> Len(f), items |-> its, failed_keys |-> f]

FailedKey(key, e) ==
    [key |-> key, error |-> <<"Batch get error: ">> \o ErrorDisplay(e)]

\* entry of batch_get_items up to the for loop
batch_get_items(t, n) ==
    /\ pc = "idle"
    /\ kind' = "get"
    /\ table_name' = t
    /\ items' = [i \in 1..n |-> i]
    /\ IF ~validate_table_name(t)
       THEN /\ result' = Err(ValidationError("Table name cannot be empty"))
            /\ pc' = "done"
            /\ chunks' = chunks
       ELSE IF n = 0
       THEN /\ result' = Ok(BatchGetResult(<<>>, <<>>))
            /\ pc' = "done"
            /\ chunks' = chunks
       ELSE /\ result' = result
            /\ pc' = "for_chunk"
            /\ chunks' = chunk_for_get(items')
    /\ all_items' = <<>>
    /\ failed_keys' = <<>>
    /\ UNCHANGED <<unencodable, args, ci, chunk_items, config, attempt, retry_result, successful,
                   failed_items, in_flight, requests, last_response, first_answer, accepted,
                   signals, sleeps>>

\* head of `for chunk in chunks` of batch_get_items
GetForChunk ==
    /\ pc = "for_chunk"
    /\ kind = "get"
    /\ IF ci < Len(chunks)
       THEN /\ ci' = ci + 1
            /\ chunk_items' = chunks[ci + 1]
            /\ config' = DefaultRetryConfig
            /\ attempt' = 0
            /\ signals' = <<>>
            /\ pc' = "invoke"
            /\ result' = result
       ELSE /\ result' = Ok(BatchGetResult(all_items, failed_keys))
            /\ pc' = "done"
            /\ UNCHANGED <<ci, chunk_items, config, attempt, signals>>
    /\ UNCHANGED <<unencodable, args, kind, table_name, items, chunks, retry_result, successful,
                   failed_items, all_items, failed_keys, in_flight, requests,
                   last_response, first_answer, accepted, sleeps>>

\* variant: any Some(map) signals a retry, without is_empty() and get()
execute_batch_get_AnyMap(table, keys, resp) ==
    IF ~resp.ok THEN Err(AwsSdkError(resp.error))
    ELSE LET retrieved_items ==
                 IF resp.resp_some /\ table \in resp.resp_tables
                 THEN resp.retrieved ELSE <<>>
         IN  IF resp.some
             THEN Ok(<<<<retrieved_items, <<>>>>, TRUE>>)
             ELSE Ok(<<<<retrieved_items, <<>>>>, FALSE>>)

\* execute_batch_get after send(): the Result<((Vec, Vec), bool)>
execute_batch_get(table, keys, resp) ==
    IF ~resp.ok THEN Err(AwsSdkError(resp.error))
    ELSE LET retrieved_items ==
                 IF resp.resp_some /\ table \in resp.resp_tables
                 THEN resp.retrieved ELSE <<>>
         IN  IF resp.some /\ resp.tables # {}
             THEN IF table \in resp.tables
                  THEN Ok(<<<<retrieved_items, <<>>>>, TRUE>>)
                  ELSE Ok(<<<<retrieved_items, <<>>>>, FALSE>>)
             ELSE Ok(<<<<retrieved_items, <<>>>>, FALSE>>)

\* the store answers the bulk read in flight
GetRespond(resp) ==
    /\ pc = "await"
    /\ kind = "get"
    /\ in_flight' = in_flight - 1
    /\ last_response' = [i \in 1..ci |->
           IF i = ci THEN resp ELSE last_response[i]]
    /\ first_answer' = IF attempt = 0
                       THEN Append(first_answer,
                                IF ~resp.ok THEN "error"
                                ELSE IF resp.keys = {} THEN "accepted"
                                ELSE "partial")
                       ELSE first_answer
    /\ RetryStep(execute_batch_get(table_name, chunk_items, resp))
    /\ UNCHANGED <<unencodable, args, kind, table_name, items, chunks, ci, chunk_items, config,
                   attempt, successful, failed_items, all_items, failed_keys,
                   result, requests, accepted>>

\* variant: after an error only the first key of the chunk is recorded
GetMatchResult_FirstKeyOnly ==
    /\ pc = "match"
    /\ kind = "get"
    /\ IF retry_result.ok
       THEN /\ all_items' = all_items \o retry_result.value[1]
            /\ failed_keys' = failed_keys \o retry_result.value[2]
       ELSE /\ all_items' = all_items
            /\ failed_keys' = failed_keys \o
                   <<FailedKey(chunk_items[1], retry_result.error)>>
    /\ pc' = "for_chunk"
    /\ UNCHANGED <<unencodable, args, kind, table_name, items, chunks, ci,
                   chunk_items, config, attempt, retry_result, successful,
                   failed_items, result, in_flight, requests, last_response,
                   first_answer, accepted, signals, sleeps>>

\* match retry_result in batch_get_items
GetMatchResult ==
    /\ pc = "match"
    /\ kind = "get"
    /\ IF retry_result.ok
       THEN /\ all_items' = all_items \o retry_result.value[1]
            /\ failed_keys' = failed_keys \o retry_result.value[2]
       ELSE /\ all_items' = all_items
            /\ failed_keys' = failed_keys \o
                   [i \in 1..Len(chunk_items) |->
                       FailedKey(chunk_items[i], retry_result.error)]
    /\ pc' = "for_chunk"
    /\ UNCHANGED <<unencodable, args, kind, table_name, items, chunks, ci, chunk_items, config,
                   attempt, retry_result, successful, failed_items, result,
                   in_flight, requests, last_response, first_answer, accepted, signals,
                   sleeps>>

\* ------------------------------------- retry_with_backoff called directly
\* entry of retry_with_backoff(operation, &cfg) with an arbitrary operation
retry_with_backoff(cfg) ==
    /\ pc = "idle"
    /\ kind' = "retry"
    /\ config' = cfg
    /\ attempt' = 0
    /\ pc' = "invoke"
    /\ UNCHANGED <<unencodable, args, table_name, items, chunks, ci, chunk_items, retry_result,
                   successful, failed_items, all_items, failed_keys, result,
                   in_flight, requests, last_response, first_answer, accepted, signals,
                   sleeps>>

\* the operation of a direct call completes with any outcome
OpRespond(out) ==
    /\ pc = "await"
    /\ kind = "retry"
    /\ in_flight' = in_flight - 1
    /\ last_response' = <<out>>
    /\ RetryStep(out)
    /\ UNCHANGED <<unencodable, args, first_answer, kind, table_name, items, chunks, ci, chunk_items, config,
                   attempt, successful, failed_items, all_items, failed_keys,
                   result, requests, accepted>>

\* a direct call of retry_with_backoff returns to its caller
RetryReturn ==
    /\ pc = "match"
    /\ kind = "retry"
    /\ result' = retry_result
    /\ pc' = "done"
    /\ UNCHANGED <<unencodable, args, kind, table_name, items, chunks, ci, chunk_items, config,
                   attempt, retry_result, successful, failed_items, all_items,
                   failed_keys, in_flight, requests, last_response, first_answer, accepted,
                   signals, sleeps>>

\* ------------------------------------------------- typed batch_put / batch_get
\* input positions whose record serde_dynamo::to_item may reject
EncodeFailures(n) == {{}} \cup (IF n = 0 THEN {} ELSE {{1}, {n}})

\* retrieved records serde_dynamo::from_item may reject
DecodeFailures(its) == {{}} \cup (IF its = <<>> THEN {} ELSE {{its[Len(its)]}})

\* serde_dynamo::to_item(record at position i).map_err(Error::Validation)
to_item(i, bad, msg) == IF i \in bad THEN Err(ValidationError(msg)) ELSE Ok(i)

\* serde_dynamo::from_item(item.clone()).map_err(Error::Validation)
from_item(x, bad) ==
    IF x \in bad THEN Err(ValidationError("Failed to deserialize item"))
    ELSE Ok([typed |-> x])

\* Iterator::collect::<Result<Vec<_>>>(): the first Err, or all the values
CollectResults(rs) ==
    IF \E i \in 1..Len(rs) : ~rs[i].ok
    THEN rs[CHOOSE i \in 1..Len(rs) :
                ~rs[i].ok /\ \A j \in 1..(i - 1) : rs[j].ok]
    ELSE Ok([i \in 1..Len(rs) |-> rs[i].value])

\* variant: records are encoded chunk by chunk, after the chunks before the
\* failing one were sent
batch_put_EncodesPerChunk(t, n, bad) ==
    /\ pc = "idle"
    /\ LET item_maps == CollectResults(
            [i \in 1..n |-> to_item(i, bad, "Failed to serialize item")])
           first_bad == CHOOSE i \in bad : \A j \in bad : i <= j
           sent == SliceChunks([i \in 1..n |-> i], DYNAMODB_BATCH_LIMIT)
       IN  IF validate_table_name(t) /\ item_maps.ok
        THEN batch_put_items(t, Len(item_maps.value))
        ELSE /\ kind' = "batch_put"
             /\ table_name' = t
             /\ items' = [i \in 1..n |-> i]
             /\ unencodable' = bad
             /\ result' = IF ~validate_table_name(t)
                          THEN Err(ValidationError("Table name cannot be empty"))
                          ELSE item_maps
             /\ requests' =
                   IF ~validate_table_name(t) THEN requests
                   ELSE [c \in 1..((first_bad - 1) \div DYNAMODB_BATCH_LIMIT) |->
                            [chunk |-> c, attempt |-> 0, table |-> t,
                             items |-> sent[c]]]
             /\ pc' = "done"
             /\ UNCHANGED <<args, chunks, ci, chunk_items, config, attempt,
                            retry_result, successful, failed_items, all_items,
                            failed_keys, in_flight, last_response,
                            first_answer, accepted, signals, sleeps>>

\* batch_put: validation, encoding of every record, then batch_put_items
batch_put(t, n, bad) ==
    /\ pc = "idle"
    /\ LET item_maps == CollectResults(
            [i \in 1..n |-> to_item(i, bad, "Failed to serialize item")])
       IN  IF validate_table_name(t) /\ item_maps.ok
        THEN batch_put_items(t, Len(item_maps.value))
        ELSE /\ kind' = "batch_put"
             /\ table_name' = t
             /\ items' = [i \in 1..n |-> i]
             /\ unencodable' = bad
             /\ result' = IF ~validate_table_name(t)
                          THEN Err(ValidationError("Table name cannot be empty"))
                          ELSE item_maps
             /\ pc' = "done"
             /\ UNCHANGED <<args, chunks, ci, chunk_items, config, attempt,
                            retry_result, successful, failed_items, all_items,
                            failed_keys, in_flight, requests, last_response,
                            first_answer, accepted, signals, sleeps>>

\* variant: records are encoded chunk by chunk, after the chunks before the
\* failing one were sent
batch_get_EncodesPerChunk(t, n, bad) ==
    /\ pc = "idle"
    /\ LET key_maps == CollectResults(
            [i \in 1..n |-> to_item(i, bad, "Failed to serialize key")])
           first_bad == CHOOSE i \in bad : \A j \in bad : i <= j
           sent == SliceChunks([i \in 1..n |-> i], DYNAMODB_BATCH_GET_LIMIT)
       IN  IF validate_table_name(t) /\ key_maps.ok
        THEN batch_get_items(t, Len(key_maps.value))
        ELSE /\ kind' = "batch_get"
             /\ table_name' = t
             /\ items' = [i \in 1..n |-> i]
             /\ unencodable' = bad
             /\ result' = IF ~validate_table_name(t)
                          THEN Err(ValidationError("Table name cannot be empty"))
                          ELSE key_maps
             /\ requests' =
                   IF ~validate_table_name(t) THEN requests
                   ELSE [c \in 1..((first_bad - 1) \div DYNAMODB_BATCH_GET_LIMIT) |->
                            [chunk |-> c, attempt |-> 0, table |-> t,
                             items |-> sent[c]]]
             /\ pc' = "done"
             /\ UNCHANGED <<args, chunks, ci, chunk_items, config, attempt,
                            retry_result, successful, failed_items, all_items,
                            failed_keys, in_flight, last_response,
                            first_answer, accepted, signals, sleeps>>

\* batch_get up to the call of batch_get_items
batch_get(t, n, bad) ==
    /\ pc = "idle"
    /\ LET key_maps == CollectResults(
            [i \in 1..n |-> to_item(i, bad, "Failed to serialize key")])
       IN  IF validate_table_name(t) /\ key_maps.ok
        THEN batch_get_items(t, Len(key_maps.value))
        ELSE /\ kind' = "batch_get"
             /\ table_name' = t
             /\ items' = [i \in 1..n |-> i]
             /\ unencodable' = bad
             /\ result' = IF ~validate_table_name(t)
                          THEN Err(ValidationError("Table name cannot be empty"))
                          ELSE key_maps
             /\ pc' = "done"
             /\ UNCHANGED <<args, chunks, ci, chunk_items, config, attempt,
                            retry_result, successful, failed_items, all_items,
                            failed_keys, in_flight, requests, last_response,
                            first_answer, accepted, signals, sleeps>>

\* batch_get after batch_get_items returned: the records are decoded
batch_get_return(bad) ==
    /\ pc = "done"
    /\ kind = "get"
    /\ validate_table_name(table_name)
    /\ kind' = "batch_get"
    /\ result' =
          IF ~result.ok THEN result
          ELSE LET deserialized_items == CollectResults(
                       [i \in 1..Len(result.value.items) |->
                           from_item(result.value.items[i], bad)])
               IN  IF ~deserialized_items.ok THEN deserialized_items
                   ELSE Ok([successful |-> result.value.successful,
                            failed |-> result.value.failed,
                            items |-> deserialized_items.value,
                            failed_keys |-> result.value.failed_keys])
    /\ UNCHANGED <<unencodable, args, pc, table_name, items, chunks, ci,
                   chunk_items, config, attempt, retry_result, successful,
                   failed_items, all_items, failed_keys, in_flight, requests,
                   last_response, first_answer, accepted, signals, sleeps>>

\* ------------------------------------------------- helpers called directly
\* a call of chunk_items(&items, chunk_size)
call_chunk_items(n, chunk_size) ==
    /\ pc = "idle"
    /\ kind' = "chunk_items"
    /\ items' = [i \in 1..n |-> i]
    /\ args' = <<chunk_size>>
    /\ chunks' = chunking_chunk_items(items', chunk_size)
    /\ pc' = "done"
    /\ UNCHANGED <<unencodable, table_name, ci, chunk_items, config, attempt,
                   retry_result, successful, failed_items, all_items,
                   failed_keys, result, in_flight, requests, last_response,
                   first_answer, accepted, signals, sleeps>>

\* a call of cfg.delay_for_attempt(n); the duration in milliseconds
call_delay_for_attempt(cfg, n) ==
    /\ pc = "idle"
    /\ kind' = "delay_for_attempt"
    /\ args' = <<cfg, n>>
    /\ result' = Ok(delay_for_attempt(cfg, n))
    /\ pc' = "done"
    /\ UNCHANGED <<unencodable, table_name, items, chunks, ci, chunk_items,
                   config, attempt, retry_result, successful, failed_items,
                   all_items, failed_keys, in_flight, requests, last_response,
                   first_answer, accepted, signals, sleeps>>

Next ==
    \/ \E t \in TableNames, n \in PutItemCounts : batch_put_items(t, n)
    \/ \E t \in TableNames, n \in PutItemCounts : store_batch_put_items(t, n)
    \/ PutForChunk
    \/ Invoke
    \/ \E resp \in WriteResponses(table_name, chunk_items) : PutRespond(resp)
    \/ Wake
    \/ PutMatchResult
    \/ \E t \in TableNames, n \in GetKeyCounts : batch_get_items(t, n)
    \/ GetForChunk
    \/ \E resp \in GetResponses(table_name, chunk_items) : GetRespond(resp)
    \/ GetMatchResult
    \/ \E cfg \in RetryConfigs : retry_with_backoff(cfg)
    \/ \E out \in OpOutcomes : OpRespond(out)
    \/ RetryReturn
    \/ \E t \in TableNames, n \in PutItemCounts :
          \E bad \in EncodeFailures(n) : batch_put(t, n, bad)
    \/ \E t \in TableNames, n \in GetKeyCounts :
          \E bad \in EncodeFailures(n) : batch_get(t, n, bad)
    \/ \E bad \in (IF result.ok /\ kind = "get"
                    THEN DecodeFailures(result.value.items) ELSE {{}}) :
          batch_get_return(bad)
    \/ \E n \in 0..MaxPutItems :
          \E size \in {NoneSize} \cup {SomeSize(k) : k \in 1..MaxChunkSize} :
             call_chunk_items(n, size)
    \/ \E cfg \in RetryConfigs, n \in 0..MaxRetriesBound :
          call_delay_for_attempt(cfg, n)

Spec == Init /\ [][Next]_vars

\* the store answers the outstanding request of the batch call
Responds ==
    \/ \E resp \in WriteResponses(table_name, chunk_items) : PutRespond(resp)
    \/ \E resp \in GetResponses(table_name, chunk_items) : GetRespond(resp)

\* the steps of the batch call itself: the task is polled and its sleeps end
Runs ==
    \/ PutForChunk
    \/ Invoke
    \/ Wake
    \/ PutMatchResult
    \/ GetForChunk
    \/ GetMatchResult

\* one call of batch_put_items or batch_get_items
BatchNext ==
    \/ \E t \in TableNames, n \in PutItemCounts : batch_put_items(t, n)
    \/ \E t \in TableNames, n \in GetKeyCounts : batch_get_items(t, n)
    \/ Responds
    \/ Runs

\* a batch call in which every network call returns and the task keeps
\* being run
LiveSpec == Init /\ [][BatchNext]_vars /\ WF_vars(Responds) /\ WF_vars(Runs)

\* ------------------------------------------------------------ properties
RECURSIVE SumSeq(_)
SumSeq(q) == IF q = <<>> THEN 0 ELSE Head(q) + SumSeq(Tail(q))

\* number of requests sent for chunk i
RequestsOf(i) == Cardinality({j \in 1..Len(requests) : requests[j].chunk = i})

\* what the operation of chunk i returned for the latest answer of the store
LastOutcome(i) ==
    IF kind = "put" THEN execute_batch_write(table_name, chunks[i], last_response[i])
    ELSE execute_batch_get(table_name, chunks[i], last_response[i])

\* entries the latest answer for chunk i left unprocessed under the table
Residue(i) ==
    IF ~last_response[i].ok \/ ~last_response[i].some
          \/ table_name \notin last_response[i].tables THEN {}
    ELSE IF kind = "put" THEN last_response[i].requests ELSE last_response[i].keys

\* the description batch_put_items derives from a store error
WriteErrorText(cause) == <<"Batch write error: ", "AWS SDK error: ", cause>>

PutReturned == kind = "put" /\ pc = "done" /\ result.ok

\* C1: when the retry loop of a write chunk ended in a store error, the match
\* of batch_put_items appends every record of the chunk, in order, with the
\* text of that error, and leaves successful as it was.
C1_TerminalErrorFailsWholeChunk ==
    [][(pc = "match" /\ kind = "put" /\ ~last_response[ci].ok) =>
          /\ successful' = successful
          /\ Len(failed_items') = Len(failed_items) + Len(chunks[ci])
          /\ SubSeq(failed_items', 1, Len(failed_items)) = failed_items
          /\ \A j \in 1..Len(chunks[ci]) :
                failed_items'[Len(failed_items) + j] =
                    [item |-> chunks[ci][j],
                     error |-> WriteErrorText(last_response[ci].error)]]_vars

C1_Witness ==
    /\ kind = "put" /\ pc = "for_chunk" /\ ci = 2
    /\ ~last_response[2].ok /\ last_response[1].ok
    /\ Len(failed_items) = Len(chunks[2])
    /\ successful > 0

\* C2: with a non-blank table name a returned batch_put_items is Ok, every
\* input record was sent in at least one request (also those of chunks after
\* a chunk that ended in a store error), and the records of every chunk that
\* ended in a store error are listed in failed_items.
C2_ChunkErrorDoesNotAbort ==
    (kind = "put" /\ pc = "done" /\ validate_table_name(table_name)) =>
        /\ result.ok
        /\ \A k \in 1..Len(items) :
              \E j \in 1..Len(requests) : items[k] \in Range(requests[j].items)
        /\ \A i \in 1..Len(chunks) : RequestsOf(i) >= 1
        /\ \A i \in 1..Len(chunks) : ~last_response[i].ok =>
              \A x \in Range(chunks[i]) :
                 \E f \in Range(result.value.failed_items) : f.item = x

C2_Witness ==
    /\ PutReturned /\ Len(chunks) = 2
    /\ ~last_response[1].ok
    /\ RequestsOf(2) >= 1
    /\ result.value.failed >= DYNAMODB_BATCH_LIMIT

\* C3 (as claimed): batch_put_items returns an error whenever a store call
\* of it failed (missing table, credentials, connectivity).
C3_StoreFailureReturnsErr ==
    (kind = "put" /\ pc = "done"
        /\ \E i \in 1..Len(last_response) : ~last_response[i].ok) => ~result.ok

\* C4: when the retry loop of a chunk returns with an answer that still
\* reports unprocessed entries, this was the last permitted attempt, the match
\* adds nothing to failed_items / failed_keys, and for writes the chunk adds
\* its size minus the unprocessed count, less than its size, to successful.
C4_ResidueSilentlyDropped ==
    [][(pc = "match" /\ kind \in {"put", "get"} /\ Residue(ci) # {}) =>
          /\ attempt = config.max_retries
          /\ failed_items' = failed_items
          /\ failed_keys' = failed_keys
          /\ kind = "put" =>
                /\ successful' - successful
                      = Len(chunks[ci]) - Cardinality(Residue(ci))
                /\ successful' - successful < Len(chunks[ci])]_vars

C4_Witness ==
    /\ PutReturned /\ Len(chunks) = 2
    /\ Residue(1) # {} /\ Residue(2) = {} /\ last_response[2].ok
    /\ result.value.failed = 0
    /\ result.value.successful < Len(items)

\* C5 (as claimed): every record the last answer for its chunk still reports
\* unprocessed is listed in failed_items and counted in failed.
C5_ResidueRecordedAsFailure ==
    PutReturned =>
        \A i \in 1..Len(chunks) : \A x \in Residue(i) :
            /\ \E f \in Range(result.value.failed_items) : f.item = x
            /\ result.value.failed >= 1

\* C6 (as claimed): no record listed in failed_items was accepted by the
\* store in any attempt of the call.
C6_FailedItemsNeverAccepted ==
    PutReturned =>
        \A f \in Range(result.value.failed_items) : f.item \notin accepted

\* C7: in a returned BatchWriteResult failed is the length of failed_items,
\* successful is the sum over the chunks of the count of the chunk's final
\* attempt (0 after a store error), and failed_items is the concatenation in
\* chunk order of the records of the chunks that ended in a store error.
C7_Aggregation ==
    PutReturned =>
        /\ result.value.failed = Len(result.value.failed_items)
        /\ result.value.successful =
              SumSeq([i \in 1..Len(chunks) |->
                  IF LastOutcome(i).ok THEN LastOutcome(i).value[1][1] ELSE 0])
        /\ result.value.failed_items =
              Concat([i \in 1..Len(chunks) |->
                  IF last_response[i].ok THEN <<>>
                  ELSE [j \in 1..Len(chunks[i]) |->
                          [item |-> chunks[i][j],
                           error |-> WriteErrorText(last_response[i].error)]]])

C7_Witness ==
    /\ PutReturned /\ Len(chunks) = 2
    /\ last_response[1].ok /\ Residue(1) # {} /\ ~last_response[2].ok
    /\ result.value.successful > 0 /\ result.value.failed > 0

\* C8: at most one request of a batch call is in flight; requests follow
\* the chunk order; and while chunk ci is being attempted every earlier chunk
\* has resolved: its last answer was an error, or signalled no retry, or was
\* the answer to its last permitted attempt.
C8_SequentialChunks ==
    kind \in {"put", "get"} =>
        /\ in_flight <= 1
        /\ in_flight = 1 <=> pc = "await"
        /\ \A j \in 1..Len(requests) :
              /\ requests[j].chunk \in 1..ci
              /\ requests[j].items = chunks[requests[j].chunk]
              /\ j > 1 => requests[j].chunk \in
                    {requests[j - 1].chunk, requests[j - 1].chunk + 1}
        /\ \A i \in 1..(ci - 1) :
              \/ ~LastOutcome(i).ok
              \/ ~LastOutcome(i).value[2]
              \/ RequestsOf(i) = DefaultRetryConfig.max_retries + 1

C8_Witness ==
    /\ kind = "put" /\ ci = 2 /\ pc = "await" /\ attempt = 1
    /\ RequestsOf(1) = DefaultRetryConfig.max_retries + 1
    /\ LastOutcome(1).ok /\ LastOutcome(1).value[2]

\* C9: every bulk-write request carries 1..25 records and every bulk-read
\* request 1..100 keys, on the first attempt and on every retry.
C9_RequestSizes ==
    \A j \in 1..Len(requests) :
        /\ kind = "put" => Len(requests[j].items) \in 1..25
        /\ kind = "get" => Len(requests[j].items) \in 1..100

C9_Witness ==
    /\ kind = "put" /\ Len(requests) >= 2
    /\ requests[Len(requests)].attempt = 3
    /\ Len(requests[Len(requests)].items) = 25
    /\ requests[1].attempt = 0 /\ Len(requests[1].items) = 25

\* C10: a retry loop calls the operation at most max_retries + 1 times; when
\* every call signalled should_retry the loop made exactly max_retries + 1
\* calls and returned Ok with the value of the last call.
C10_RetryExhaustion ==
    /\ pc # "idle" => RequestsOf(ci) <= config.max_retries + 1
    /\ (pc \in {"match", "for_chunk", "done"} /\ signals # <<>>
            /\ \A k \in 1..Len(signals) : signals[k] = "retry") =>
          /\ RequestsOf(ci) = config.max_retries + 1
          /\ Len(signals) = config.max_retries + 1
          /\ retry_result.ok
          /\ retry_result.value =
                (IF kind = "retry" THEN last_response[1].value[1]
                 ELSE LastOutcome(ci).value[1])
          /\ (kind = "retry" /\ pc = "done") => result = retry_result

C10_Witness ==
    /\ kind = "retry" /\ pc = "done" /\ config.max_retries = 2
    /\ signals = <<"retry", "retry", "retry">>
    /\ result.ok /\ result.value = 42

\* the retry loop of the current chunk (or the direct call) has returned
LoopReturned == pc \in {"match", "for_chunk", "done"} /\ signals # <<>>

\* the loop is between two calls of operation(), or inside one
LoopRunning == pc \in {"invoke", "await", "sleep"}

\* value of the latest call of operation() in the running loop
LastValue ==
    IF kind = "retry" THEN last_response[1].value[1] ELSE LastOutcome(ci).value[1]

\* error of the latest call of operation() in the running loop
LastError ==
    IF kind = "retry" THEN last_response[1].error
    ELSE [variant |-> "AwsSdk", detail |-> last_response[ci].error]

\* C11: a retry loop goes on only after a call that signalled should_retry;
\* when a call signals should_retry = false after k calls that signalled true,
\* the loop has made k + 1 calls, returns Ok with the value of that call, and
\* has slept k times (no sleep after the last call).
C11_StopsAtFirstNoRetry ==
    /\ \A k \in 1..(Len(signals) - 1) : signals[k] = "retry"
    /\ LoopRunning => \A k \in 1..Len(signals) : signals[k] = "retry"
    /\ (LoopReturned /\ signals[Len(signals)] = "stop") =>
          /\ Len(signals) <= config.max_retries + 1
          /\ RequestsOf(ci) = Len(signals)
          /\ retry_result = [ok |-> TRUE, value |-> LastValue, error |-> "none"]
          /\ kind = "retry" => Len(sleeps) = Len(signals) - 1
          /\ (kind = "retry" /\ pc = "done") => result = retry_result

C11_Witness ==
    /\ kind = "retry" /\ pc = "done" /\ config.max_retries = 4
    /\ signals = <<"retry", "retry", "stop">>
    /\ Len(requests) = 3 /\ Len(sleeps) = 2
    /\ result.ok /\ result.value = 41

\* C12: when a call of operation() returns an error the loop returns that
\* error at once: no call and no sleep follow it, so an operation failing on
\* its first call is called exactly once and nothing is slept.
C12_ErrorReturnsImmediately ==
    /\ LoopRunning => \A k \in 1..Len(signals) : signals[k] # "error"
    /\ (LoopReturned /\ signals[Len(signals)] = "error") =>
          /\ RequestsOf(ci) = Len(signals)
          /\ retry_result = [ok |-> FALSE, value |-> "none", error |-> LastError]
          /\ kind = "retry" => Len(sleeps) = Len(signals) - 1
          /\ (kind = "retry" /\ pc = "done") => result = retry_result
          /\ (kind = "retry" /\ signals = <<"error">>) =>
                Len(requests) = 1 /\ sleeps = <<>>

C12_Witness ==
    /\ kind = "retry" /\ pc = "done"
    /\ signals = <<"error">>
    /\ Len(requests) = 1 /\ sleeps = <<>>
    /\ ~result.ok /\ result.error = "boom"

RECURSIVE Geometric(_, _, _)
\* initial * multiplier * ... * multiplier (i factors multiplier)
Geometric(initial, multiplier, i) ==
    IF i = 0 THEN initial ELSE multiplier * Geometric(initial, multiplier, i - 1)

\* C13: in the first retry loop of a call the number of sleeps is the number
\* of calls of operation() that were followed by another call (or are being
\* followed: the loop is asleep), the k-th sleep lasts
\* initial_delay * multiplier^(k-1); every sleep of a batch call lasts 100, 200
\* or 400 ms, and a loop with the default configuration that exhausted its
\* budget slept 100, 200, 400 ms.
C13_SleepSchedule ==
    /\ (ci <= 1 /\ pc # "idle") =>
          /\ Len(sleeps) = attempt + (IF pc = "sleep" THEN 1 ELSE 0)
          /\ pc = "sleep" => Len(sleeps) = RequestsOf(ci)
          /\ pc \in {"await", "match"} => Len(sleeps) = RequestsOf(ci) - 1
          /\ \A k \in 1..Len(sleeps) :
                sleeps[k] = Geometric(config.initial_delay_ms,
                                      config.backoff_multiplier, k - 1)
    /\ kind \in {"put", "get"} =>
          \A k \in 1..Len(sleeps) : sleeps[k] \in {100, 200, 400}
    /\ (ci <= 1 /\ LoopReturned /\ Len(signals) = 4
            /\ config.max_retries = 3 /\ config.initial_delay_ms = 100
            /\ config.backoff_multiplier = 2) => sleeps = <<100, 200, 400>>

C13_Witness ==
    /\ kind = "retry" /\ pc = "done"
    /\ config.max_retries = 3 /\ config.initial_delay_ms = 100
    /\ config.backoff_multiplier = 2
    /\ signals = <<"retry", "retry", "retry", "retry">>
    /\ sleeps = <<100, 200, 400>>

\* a table name that is empty or consists of whitespace only
Blank(t) == \A i \in 1..Len(t) : t[i] = " "

\* C14: a batch call with a blank table name has returned a validation error
\* and has sent no request.
C14_BlankTableRejected ==
    (kind \in {"put", "get"} /\ Blank(table_name)) =>
        /\ pc = "done"
        /\ ~result.ok
        /\ result.error.variant = "Validation"
        /\ requests = <<>>
        /\ in_flight = 0

C14_Witness ==
    /\ kind = "get" /\ pc = "done"
    /\ table_name = <<" ">> /\ Len(items) > 0
    /\ ~result.ok /\ requests = <<>>

\* C15: a batch call with a non-blank table name and an empty input has
\* returned the zero-valued result and has sent no request.
C15_EmptyInputZeroResult ==
    (kind \in {"put", "get"} /\ ~Blank(table_name) /\ items = <<>>) =>
        /\ pc = "done"
        /\ requests = <<>>
        /\ result.ok
        /\ kind = "put" => result.value =
              [successful |-> 0, failed |-> 0, failed_items |-> <<>>]
        /\ kind = "get" => result.value =
              [successful |-> 0, failed |-> 0, items |-> <<>>,
               failed_keys |-> <<>>]

C15_Witness ==
    /\ kind = "put" /\ pc = "done"
    /\ table_name = <<"t">> /\ items = <<>>
    /\ result.ok /\ result.value.successful = 0

\* the c-th slice of 25 records of the input
WriteSlice(c) ==
    SubSeq(items, 25 * (c - 1) + 1,
           IF 25 * c < Len(items) THEN 25 * c ELSE Len(items))

\* C16: when the answer to the first attempt of every chunk of a returned
\* batch write of n > 0 records reported full acceptance, exactly ceil(n/25)
\* requests were sent, the j-th carrying the j-th slice of 25 records, nothing
\* was slept, and the result is successful = n, failed = 0, no failed_items.
C16_AllAcceptedFirstAttempt ==
    (PutReturned /\ Len(items) > 0
        /\ \A i \in 1..Len(first_answer) : first_answer[i] = "accepted") =>
        /\ Len(requests) = (Len(items) + 24) \div 25
        /\ \A j \in 1..Len(requests) :
              /\ requests[j].chunk = j
              /\ requests[j].attempt = 0
              /\ requests[j].items = WriteSlice(j)
        /\ sleeps = <<>>
        /\ result.value = [successful |-> Len(items), failed |-> 0,
                           failed_items |-> <<>>]

C16_Witness ==
    /\ PutReturned /\ Len(items) = 26
    /\ first_answer = <<"accepted", "accepted">>
    /\ Len(requests) = 2
    /\ result.value.successful = 26

\* C17: when the first call of exactly one chunk of a returned batch write
\* raised a store error and the first attempt of every other chunk was fully
\* accepted, the failing chunk was called once, failed_items is exactly its
\* records with the text of that error, and successful is the number of
\* records of the other chunks.
C17_OneChunkHardFailure ==
    \A e \in 1..Len(first_answer) :
        (PutReturned /\ first_answer[e] = "error"
            /\ \A i \in 1..Len(first_answer) :
                  i # e => first_answer[i] = "accepted") =>
            /\ RequestsOf(e) = 1
            /\ Len(requests) = (Len(items) + 24) \div 25
            /\ result.value.failed_items =
                  [j \in 1..Len(WriteSlice(e)) |->
                      [item |-> WriteSlice(e)[j],
                       error |-> WriteErrorText(last_response[e].error)]]
            /\ result.value.failed = Len(WriteSlice(e))
            /\ result.value.successful = Len(items) - Len(WriteSlice(e))

C17_Witness ==
    /\ PutReturned /\ Len(items) = 26
    /\ first_answer = <<"error", "accepted">>
    /\ result.value.failed = 25 /\ result.value.successful = 1

C19_RetryResendsWholeChunk ==
    kind = "put" =>
        \A j \in 1..Len(requests) :
            /\ requests[j].items = WriteSlice(requests[j].chunk)
            /\ requests[j].table = table_name

C19_Witness ==
    /\ kind = "put" /\ pc = "await" /\ attempt >= 1
    /\ first_answer[ci] = "partial"
    /\ \E x \in accepted :
          /\ x \in Range(chunks[ci])
          /\ x \in Range(requests[Len(requests)].items)
    /\ requests[Len(requests)].attempt = attempt

\* C20: no chunk of a batch call is submitted more than 4 times.
C20_AtMostFourSubmissions ==
    kind \in {"put", "get"} =>
        \A i \in 1..Len(chunks) : RequestsOf(i) <= 4

C20_Witness ==
    /\ kind = "get" /\ pc = "done" /\ Len(chunks) = 2
    /\ RequestsOf(1) = 4 /\ RequestsOf(2) = 4

C22_RetrievedAccumulated ==
    [][(kind = "get" /\ pc = "await" /\ attempt >= 1 /\ pc' = "match") =>
          \A x \in Range(LastOutcome(ci).value[1][1]) :
             /\ retry_result'.ok
             /\ x \in Range(retry_result'.value[1])]_vars

\* the description batch_get_items derives from a store error
ReadErrorText(cause) == <<"Batch get error: ", "AWS SDK error: ", cause>>

\* C23: when the retry loop of a read chunk ended in a store error, the match
\* of batch_get_items appends every key of the chunk, in order, with the text
\* of that error, and adds no record to items, whatever earlier attempts of
\* the chunk had returned.
C23_ReadErrorFailsWholeChunk ==
    [][(pc = "match" /\ kind = "get" /\ ~last_response[ci].ok) =>
          /\ all_items' = all_items
          /\ failed_keys' = failed_keys \o
                [j \in 1..Len(chunks[ci]) |->
                    [key |-> chunks[ci][j],
                     error |-> ReadErrorText(last_response[ci].error)]]]_vars

C23_Witness ==
    /\ kind = "get" /\ pc = "for_chunk" /\ ci = 1 /\ Len(chunks) = 2
    /\ ~last_response[1].ok /\ RequestsOf(1) >= 2
    /\ all_items = <<>>
    /\ Len(failed_keys) = 100

\* what batch_get_items hands back for a run of the chunks: the records of
\* the last answer of every chunk whose loop returned Ok, in chunk order
Contributed ==
    Concat([i \in 1..Len(chunks) |->
        IF LastOutcome(i).ok THEN LastOutcome(i).value[1][1] ELSE <<>>])

\* C24: in every result returned by batch_get_items and by the typed
\* batch_get, successful is the length of items, failed the length of
\* failed_keys, and items is the concatenation in chunk order of the records
\* the chunks contributed (decoded one by one in the typed call).
C24_ReadAggregation ==
    (kind \in {"get", "batch_get"} /\ pc = "done" /\ result.ok) =>
        /\ Len(result.value.items) = result.value.successful
        /\ Len(result.value.failed_keys) = result.value.failed
        /\ kind = "get" => result.value.items = Contributed
        /\ kind = "batch_get" => result.value.items =
              [k \in 1..Len(Contributed) |-> [typed |-> Contributed[k]]]

C24_Witness ==
    /\ kind = "batch_get" /\ pc = "done" /\ result.ok
    /\ Len(chunks) = 2
    /\ result.value.successful = 100 /\ result.value.failed = 1
    /\ Len(result.value.items) = 100

\* C25: a typed batch_put or batch_get with an input record or key that
\* cannot be encoded has returned a validation error and has sent no request,
\* wherever in the input the record is.
C25_EncodeFailureSendsNothing ==
    unencodable # {} =>
        /\ pc = "done"
        /\ ~result.ok
        /\ result.error.variant = "Validation"
        /\ requests = <<>>
        /\ in_flight = 0

C25_Witness ==
    /\ kind = "batch_put" /\ pc = "done" /\ Len(items) = 26
    /\ unencodable = {26}
    /\ ~result.ok /\ result.error.detail = "Failed to serialize item"
    /\ requests = <<>>

BatchKinds == {"put", "get", "batch_put", "batch_get"}

\* C26 (as claimed): a batch call that returned a validation error, codec
\* failures included, has made no network call.
C26_ValidationBeforeNetwork ==
    (kind \in BatchKinds /\ pc = "done" /\ ~result.ok
        /\ result.error.variant = "Validation") => requests = <<>>

\* C26 (amended): a batch call that returned a validation error other than a
\* failure to decode a retrieved record has made no network call; a failure
\* to decode is returned after the requests of the call.
C26_ValidationBeforeNetworkButDecode ==
    (kind \in BatchKinds /\ pc = "done" /\ ~result.ok
        /\ result.error.variant = "Validation") =>
        /\ result.error.detail # "Failed to deserialize item" =>
              requests = <<>> /\ in_flight = 0
        /\ result.error.detail = "Failed to deserialize item" =>
              kind = "batch_get" /\ requests # <<>> /\ in_flight = 0

C26_Witness ==
    /\ kind = "batch_get" /\ pc = "done" /\ Len(items) = 101
    /\ unencodable = {101}
    /\ ~result.ok /\ result.error.detail = "Failed to serialize key"
    /\ requests = <<>>

\* the limit the chunker of the current call works with
Limit ==
    IF kind = "chunk_items"
    THEN (IF args[1].some THEN args[1].size ELSE 25)
    ELSE IF kind = "put" THEN 25 ELSE 100

\* the call has chunked its input
Chunked ==
    \/ kind = "chunk_items"
    \/ kind \in {"put", "get"} /\ ci >= 1

\* C27: the chunks of a call of chunk_items with a positive limit, and those
\* a batch call works on, concatenated in order are the input; there are
\* ceil(n/limit) of them; every chunk but the last has limit elements and the
\* last has between 1 and limit elements.
C27_ChunkPartition ==
    Chunked =>
        /\ Concat(chunks) = items
        /\ Len(chunks) = (Len(items) + Limit - 1) \div Limit
        /\ \A c \in 1..(Len(chunks) - 1) : Len(chunks[c]) = Limit
        /\ chunks # <<>> => Len(chunks[Len(chunks)]) \in 1..Limit

C27_Witness ==
    /\ kind = "chunk_items" /\ pc = "done"
    /\ Len(items) = 7 /\ args = <<[some |-> TRUE, size |-> 3]>>
    /\ chunks = <<(<<1, 2, 3>>), <<4, 5, 6>>, <<7>>>>

\* C28: chunk_items of an empty sequence returns no chunk, for every limit
\* and for the default limit, and no chunk of any call is empty.
C28_EmptyInputNoChunk ==
    kind = "chunk_items" =>
        /\ items = <<>> => chunks = <<>>
        /\ \A c \in 1..Len(chunks) : chunks[c] # <<>>

C28_Witness ==
    /\ kind = "chunk_items" /\ pc = "done"
    /\ items = <<>> /\ args = <<[some |-> TRUE, size |-> 3]>>
    /\ chunks = <<>>

\* C29: delay_for_attempt(n) is initial_delay_ms multiplied n times by
\* backoff_multiplier: initial_delay_ms for n = 0, without an upper cap; with
\* 100 ms and multiplier 2 the delays of attempts 0..3 are 100, 200, 400, 800.
C29_DelayForAttempt ==
    kind = "delay_for_attempt" =>
        LET cfg == args[1]
            n == args[2]
        IN  /\ result.value =
                  Geometric(cfg.initial_delay_ms, cfg.backoff_multiplier, n)
            /\ n = 0 => result.value = cfg.initial_delay_ms
            /\ (cfg.initial_delay_ms = 100 /\ cfg.backoff_multiplier = 2
                    /\ n <= 3) => result.value = <<100, 200, 400, 800>>[n + 1]

C29_Witness ==
    /\ kind = "delay_for_attempt" /\ pc = "done"
    /\ args = <<DefaultRetryConfig, 3>>
    /\ result.value = 800

\* chunk c has been matched by the batch call and its loop ended in an error
FailedChunk(c) ==
    /\ c < ci \/ (c = ci /\ pc \in {"for_chunk", "done"})
    /\ ~last_response[c].ok

\* input positions of the records of the chunks that ended in an error
FailedPositions ==
    SelectSeq([p \in 1..Len(items) |-> p],
              LAMBDA p : FailedChunk(((p - 1) \div Limit) + 1))

\* C30: every record of every request of a batch call is the input record at
\* the position the chunk and the place in the chunk give, and the records
\* (keys) listed in failed_items (failed_keys) are, in order, the input
\* records at the positions of the chunks that ended in an error.
C30_RecordsNotMutated ==
    kind \in {"put", "get"} =>
        /\ \A j \in 1..Len(requests) : \A k \in 1..Len(requests[j].items) :
              requests[j].items[k] = items[Limit * (requests[j].chunk - 1) + k]
        /\ LET at == FailedPositions
               lost == [m \in 1..Len(at) |-> items[at[m]]]
           IN  /\ kind = "put" =>
                     [m \in 1..Len(failed_items) |-> failed_items[m].item] = lost
               /\ kind = "get" =>
                     [m \in 1..Len(failed_keys) |-> failed_keys[m].key] = lost

C30_Witness ==
    /\ kind = "put" /\ pc = "done" /\ Len(items) = 26
    /\ RequestsOf(1) = 4 /\ last_response[1].ok
    /\ ~last_response[2].ok
    /\ Len(failed_items) = 1 /\ failed_items[1].item = items[26]

\* C31: while a request of a batch call is outstanding, the only step the call
\* can take is the answer of the store to that request: no step leaves the
\* wait without consuming the answer, starts another chunk, sends another
\* request or produces the result of the call. A request that is never
\* answered therefore leaves the call waiting for ever.
C31_NoTimeoutNoCancellation ==
    [][(kind \in {"put", "get"} /\ pc = "await") =>
          /\ in_flight = 1 /\ in_flight' = 0
          /\ Len(last_response') = ci
          /\ \/ kind = "put" /\ last_response'[ci] \in WriteResponses(table_name, chunk_items)
             \/ kind = "get" /\ last_response'[ci] \in GetResponses(table_name, chunk_items)
          /\ ci' = ci
          /\ requests' = requests
          /\ result' = result
          /\ kind' = kind]_vars

C31_Witness ==
    /\ kind = "put" /\ pc = "await" /\ in_flight = 1
    /\ Len(chunks) = 2 /\ ci = 1
    /\ \A j \in 1..Len(requests) : requests[j].chunk = 1
    /\ result = NoResult

\* C32: in the result of batch_put_items successful + failed is at most the
\* number of input records (the store of the model never reports more
\* unprocessed records than were submitted), and it is that number exactly
\* when the last answer of no chunk left records unprocessed.
C32_CountsBoundedByInput ==
    PutReturned =>
        /\ result.value.successful + result.value.failed <= Len(items)
        /\ (result.value.successful + result.value.failed = Len(items))
              <=> (\A i \in 1..Len(chunks) : Residue(i) = {})

C32_Witness ==
    /\ PutReturned /\ Len(items) = 26
    /\ Residue(1) # {} /\ ~last_response[2].ok
    /\ result.value.successful + result.value.failed < 26

\* C33: in the result of batch_put_items successful is at most the number of
\* input records the store accepted in some attempt of the call; it is
\* smaller when a record accepted in an earlier attempt is reported
\* unprocessed in the last attempt of its chunk.
C33_NeverOverReports ==
    PutReturned =>
        /\ accepted \subseteq Range(items)
        /\ result.value.successful <= Cardinality(accepted)

C33_Witness ==
    /\ PutReturned /\ Len(items) = 2
    /\ RequestsOf(1) = 4
    /\ accepted = {2} /\ Residue(1) = {1, 2}
    /\ result.value.successful = 0

\* request j of the call was followed by a backoff sleep
Retried(j) ==
    \/ j < Len(requests) /\ requests[j + 1].chunk = requests[j].chunk
    \/ /\ j = Len(requests)
       /\ \/ pc = "sleep"
          \/ pc = "invoke" /\ ci = requests[j].chunk

ChunkCount == (Len(items) + Limit - 1) \div Limit

\* C35 (as claimed): a batch call that returned has issued at least
\* ceil(n/limit) and at most ceil(n/limit) * (3 + 1) requests.
C35_RequestBudget ==
    (kind \in {"put", "get"} /\ pc = "done") =>
        /\ Len(requests) >= ChunkCount
        /\ Len(requests) <= ChunkCount * (3 + 1)

\* C35 (amended): when every network call returns, a batch call eventually
\* returns; if its table name is not blank it has then issued at least
\* ceil(n/limit) and at most ceil(n/limit) * (3 + 1) requests, and if the
\* name is blank it has issued none.
C35_ReturnsWithinBudget ==
    /\ (kind \in {"put", "get"}) ~> (pc = "done")
    /\ [](kind \in {"put", "get"} =>
            /\ Len(requests) <= ChunkCount * (3 + 1)
            /\ pc = "done" =>
                  IF validate_table_name(table_name)
                  THEN Len(requests) >= ChunkCount
                  ELSE requests = <<>>)

C35_Witness ==
    /\ kind = "get" /\ pc = "done" /\ Len(items) = 101
    /\ validate_table_name(table_name)
    /\ Len(requests) = 8

\* C36: batch_put_items and batch_get_items called with a blank table name
\* and an empty input have returned the validation error "Table name cannot
\* be empty", not the zero-valued result.
C36_ValidationBeforeEmptyCheck ==
    (kind \in {"put", "get"} /\ Blank(table_name) /\ items = <<>>) =>
        /\ pc = "done"
        /\ result = Err(ValidationError("Table name cannot be empty"))
        /\ requests = <<>>

C36_Witness ==
    /\ kind = "put" /\ pc = "done"
    /\ table_name = <<" ">> /\ items = <<>>
    /\ ~result.ok /\ result.error.variant = "Validation"

\* C37: the unreachable!() after the loop of retry_with_backoff is never
\* executed: for every max_retries >= 0 and every sequence of outcomes the
\* loop variable never passes max_retries, no sleep follows the invocation
\* with attempt = max_retries, and a loop that used all max_retries + 1
\* invocations has returned with the outcome of the last one.
C37_UnreachableNeverExecuted ==
    /\ pc # "unreachable"
    /\ kind \in {"put", "get", "retry"} =>
          /\ attempt <= config.max_retries
          /\ pc = "sleep" => attempt < config.max_retries
          /\ Len(signals) <= config.max_retries + 1
          /\ (Len(signals) = config.max_retries + 1) => LoopReturned

C37_Witness ==
    /\ kind = "retry" /\ pc = "done"
    /\ config.max_retries = 0
    /\ signals = <<"retry">>
    /\ result.ok

\* C38: chunk_items without a chunk size chunks by 25; for the input of every
\* call chunk_for_write equals chunk_items with Some(25) and chunk_for_get
\* equals chunk_items with Some(100); and the chunks a write call works on
\* and sends, whichever of the two batch_put_items started it, are those of
\* chunk_items(items, None) and of chunk_for_write(items) alike.
C38_ChunkHelpersAgree ==
    /\ (kind = "chunk_items" /\ ~args[1].some) =>
          chunks = chunking_chunk_items(items, SomeSize(25))
    /\ kind \in {"chunk_items", "put", "get"} =>
          /\ chunk_for_write(items) = chunking_chunk_items(items, SomeSize(25))
          /\ chunk_for_get(items) = chunking_chunk_items(items, SomeSize(100))
    /\ (kind = "put" /\ ci >= 1) =>
          /\ chunks = chunking_chunk_items(items, NoneSize)
          /\ chunks = chunk_for_write(items)
          /\ \A j \in 1..Len(requests) :
                requests[j].items =
                    chunking_chunk_items(items, NoneSize)[requests[j].chunk]

C38_Witness ==
    /\ kind = "put" /\ pc = "done" /\ Len(items) = 26
    /\ chunks = chunking_chunk_items(items, NoneSize)
    /\ Len(requests) = 2
    /\ Len(requests[1].items) = 25 /\ requests[2].items = <<26>>
====
